---- MODULE Spec2Model ----
(***************************************************************************)
(* The in-memory authors/books store and its GraphQL resolvers             *)
(* (resolvers.js): Book.author, Author.books, Query.authors, Query.books   *)
(* and Mutation.addBook.  Every resolver is a synchronous JavaScript       *)
(* function, so each resolver call is one atomic step.                     *)
(*                                                                         *)
(* A JavaScript value that may be undefined (the result of Array.find) is  *)
(* a sequence of length 0 (undefined) or 1 (the value).                    *)
(***************************************************************************)
EXTENDS Integers, Sequences, FiniteSets

VARIABLES
    authors,   \* data.authors
    books,     \* data.books
    call,      \* the last resolver call: its name, its argument, its result
    created,   \* history: the Books returned by addBook, in call order
    snap,      \* history: per root query, its first and its latest result since
               \* the last write
    reqs       \* addBook requests received by the server, per request slot

vars == <<authors, books, call, created, snap, reqs>>

----------------------------------------------------------------------------
(* Bounds of the model *)

\* addBook calls explored after the seed data
MaxAdds == 2
\* addBook requests the server holds at the same time
MaxReqs == 2

----------------------------------------------------------------------------
(* The seed data *)

SeedAuthors ==
    << [id |-> "1", name |-> "Chirag Goel", bookIds |-> <<"101", "102">>],
       [id |-> "2", name |-> "Akshay Saini", bookIds |-> <<"103">>] >>

SeedBooks ==
    << [id |-> "101", title |-> "Namaste Frontend System Design",
        publishedYear |-> 2000, authorId |-> "1"],
       [id |-> "102", title |-> "Book 2", publishedYear |-> 2010, authorId |-> "1"],
       [id |-> "103", title |-> "Book 3", publishedYear |-> 2020, authorId |-> "2"] >>

\* the number added to data.books.length to make an id
IdBase == 101

----------------------------------------------------------------------------
(* JavaScript helpers *)

Undefined == << >>
Some(x) == << x >>

Range(s) == { s[i] : i \in 1..Len(s) }

\* one decimal digit as text
Digit(d) ==
    CASE d = 0 -> "0" [] d = 1 -> "1" [] d = 2 -> "2" [] d = 3 -> "3"
      [] d = 4 -> "4" [] d = 5 -> "5" [] d = 6 -> "6" [] d = 7 -> "7"
      [] d = 8 -> "8" [] d = 9 -> "9"

\* Number.prototype.toString() of a non-negative integer
RECURSIVE ToString(_)
ToString(n) ==
    IF n < 10 THEN Digit(n) ELSE ToString(n \div 10) \o Digit(n % 10)

\* Array.prototype.includes
Includes(arr, x) == \E i \in 1..Len(arr) : arr[i] = x

\* index of the first Author with the given id, 0 when there is none
FindAuthorIndex(as, id) ==
    IF \E i \in 1..Len(as) : as[i].id = id
    THEN CHOOSE i \in 1..Len(as) :
            /\ as[i].id = id
            /\ \A j \in 1..(i - 1) : as[j].id # id
    ELSE 0

\* data.authors.find((a) => a.id === id)
FindAuthor(as, id) ==
    LET i == FindAuthorIndex(as, id)
    IN  IF i = 0 THEN Undefined ELSE Some(as[i])

----------------------------------------------------------------------------
(* The resolvers as functions of the store *)

\* mutant: the Author is looked up by the Book's own id
Book_author_ById(as, parent) == FindAuthor(as, parent.id)

\* Book.author
Book_author(as, parent) == FindAuthor(as, parent.authorId)

\* mutant: the Books are collected id by id, in the order of bookIds
RECURSIVE BooksByIds(_, _)
BooksByIds(bs, ids) ==
    IF ids = << >> THEN << >>
    ELSE SelectSeq(bs, LAMBDA book : book.id = Head(ids)) \o BooksByIds(bs, Tail(ids))
Author_books_ByIdOrder(bs, parent) == BooksByIds(bs, parent.bookIds)

\* Author.books
Author_books(bs, parent) ==
    SelectSeq(bs, LAMBDA book : Includes(parent.bookIds, book.id))

\* Query.authors
Query_authors(as) == as

\* Query.books
Query_books(bs) == bs

\* mutant: the id is made from the count with the wrong offset
NewBookId_OffByOne(bs) == ToString(Len(bs) + IdBase - 1)

\* the id addBook generates
NewBookId(bs) == ToString(Len(bs) + IdBase)

\* the object addBook creates
NewBook(bs, args) ==
    [id |-> NewBookId(bs), title |-> args.title,
     publishedYear |-> args.publishedYear, authorId |-> args.authorId]

\* mutant: unshift instead of push
PushBook_Front(bs, b) == << b >> \o bs

\* data.books.push(newBook)
PushBook(bs, b) == Append(bs, b)

\* mutant: the Author's bookIds is never updated
LinkAuthor_Skip(as, authorId, bookId) == as

\* mutant: the Author's bookIds is assigned, not pushed to
LinkAuthor_Assign(as, authorId, bookId) ==
    LET i == FindAuthorIndex(as, authorId)
    IN  IF i = 0 THEN as
        ELSE [as EXCEPT ![i].bookIds = << bookId >>]

\* mutant: the id is pushed to the bookIds of every Author
LinkAuthor_All(as, authorId, bookId) ==
    LET i == FindAuthorIndex(as, authorId)
    IN  IF i = 0 THEN as
        ELSE [k \in 1..Len(as) |-> [as[k] EXCEPT !.bookIds = Append(@, bookId)]]

\* const author = data.authors.find(...); if (author) author.bookIds.push(id)
LinkAuthor(as, authorId, bookId) ==
    LET i == FindAuthorIndex(as, authorId)
    IN  IF i = 0 THEN as
        ELSE [as EXCEPT ![i].bookIds = Append(@, bookId)]

----------------------------------------------------------------------------
(* Inputs *)

\* title and publishedYear are stored as given; authorId decides the linking
TitleYears ==
    { [title |-> "New Book", publishedYear |-> 2025],
      [title |-> "X", publishedYear |-> 1999] }
AuthorIdInputs == {"1", "2", "does-not-exist"}

Args ==
    { [title |-> ty.title, publishedYear |-> ty.publishedYear, authorId |-> a] :
        ty \in TitleYears, a \in AuthorIdInputs }

\* Book parents handed to Book.author: the Books of the store and probes
ProbeBooks ==
    { [id |-> "999", title |-> "probe", publishedYear |-> 1999, authorId |-> a] :
        a \in AuthorIdInputs }
BookParents == Range(books) \cup ProbeBooks

\* Author parents handed to Author.books: the Authors of the store and probes
\* whose bookIds are empty, unknown, repeated or out of store order
ProbeIdSeqs ==
    { << >>, <<"101">>, <<"999">>, <<"101", "101">>, <<"104", "101">>,
      <<"103", "999">>, <<"105", "999", "102">>, <<"104", "103", "104">> }
ProbeAuthors ==
    { [id |-> "9", name |-> "probe", bookIds |-> ids] : ids \in ProbeIdSeqs }
AuthorParents == Range(authors) \cup ProbeAuthors

Reqs == 1..MaxReqs

----------------------------------------------------------------------------
(* State machine *)

NoSnap == [authors |-> << >>, books |-> << >>]
\* the first result since the last write, and the latest one once there are two
Remember(seen, result) ==
    IF seen = << >> THEN << result >> ELSE << seen[1], result >>
\* a request slot: where the request is, its arguments, the book count when it
\* was received, the Book its resolver returned, and the requests that were in
\* flight while its resolver ran
IdleReq ==
    [pc |-> "idle", args |-> Undefined, seen |-> 0, ret |-> Undefined,
     overlap |-> {}]

Init ==
    /\ authors = SeedAuthors
    /\ books = SeedBooks
    /\ call = [op |-> "init", arg |-> Undefined, ret |-> Undefined]
    /\ created = << >>
    /\ snap = NoSnap
    /\ reqs = [r \in Reqs |-> IdleReq]

\* mutant: addBook throws "Author not found" when no Author has the authorId
Mutation_addBook_Throwing(args) ==
    LET newBook == NewBook(books, args)
    IN  /\ FindAuthor(authors, args.authorId) # Undefined
        /\ books' = PushBook(books, newBook)
        /\ authors' = LinkAuthor(authors, args.authorId, newBook.id)
        /\ call' = [op |-> "addBook", arg |-> Some(args), ret |-> Some(newBook)]
        /\ created' = Append(created, newBook)
        /\ snap' = NoSnap

\* Mutation.addBook(parent, args): the whole synchronous body
Mutation_addBook(args) ==
    LET newBook == NewBook(books, args)
    IN  /\ books' = PushBook(books, newBook)
        /\ authors' = LinkAuthor(authors, args.authorId, newBook.id)
        /\ call' = [op |-> "addBook", arg |-> Some(args), ret |-> Some(newBook)]
        /\ created' = Append(created, newBook)
        /\ snap' = NoSnap

\* a direct call of addBook
AddBookCall(args) ==
    /\ Len(books) < Len(SeedBooks) + MaxAdds
    /\ Mutation_addBook(args)
    /\ UNCHANGED reqs

QueryAuthorsCall ==
    /\ call' = [op |-> "Query.authors", arg |-> Undefined,
                ret |-> Query_authors(authors)]
    /\ snap' = [snap EXCEPT !.authors = Remember(@, Query_authors(authors))]
    /\ UNCHANGED <<authors, books, created, reqs>>

\* mutant: Query.books reverses data.books in place before returning it
Reverse(seq) == [i \in 1..Len(seq) |-> seq[Len(seq) + 1 - i]]
QueryBooksCall_Reversing ==
    /\ books' = Reverse(books)
    /\ call' = [op |-> "Query.books", arg |-> Undefined, ret |-> Reverse(books)]
    /\ snap' = [snap EXCEPT !.books = Remember(@, Reverse(books))]
    /\ UNCHANGED <<authors, created, reqs>>

QueryBooksCall ==
    /\ call' = [op |-> "Query.books", arg |-> Undefined,
                ret |-> Query_books(books)]
    /\ snap' = [snap EXCEPT !.books = Remember(@, Query_books(books))]
    /\ UNCHANGED <<authors, books, created, reqs>>

BookAuthorCall(parent) ==
    /\ call' = [op |-> "Book.author", arg |-> Some(parent),
                ret |-> Book_author(authors, parent)]
    /\ UNCHANGED <<authors, books, created, snap, reqs>>

AuthorBooksCall(parent) ==
    /\ call' = [op |-> "Author.books", arg |-> Some(parent),
                ret |-> Author_books(books, parent)]
    /\ UNCHANGED <<authors, books, created, snap, reqs>>

Next ==
    \/ \E args \in Args : AddBookCall(args)
    \/ QueryAuthorsCall
    \/ QueryBooksCall
    \/ \E parent \in BookParents : BookAuthorCall(parent)
    \/ \E parent \in AuthorParents : AuthorBooksCall(parent)

Spec == Init /\ [][Next]_vars

----------------------------------------------------------------------------
(* Requests in flight: the server receives addBook requests and later runs *)
(* the resolver of each; the resolver itself is one synchronous call.      *)

\* the server receives request r; its resolver has not run yet
Receive(r, args) ==
    /\ reqs[r].pc = "idle"
    /\ reqs' = [reqs EXCEPT ![r] =
                  [@ EXCEPT !.pc = "inflight", !.args = Some(args),
                            !.seen = Len(books)]]
    /\ UNCHANGED <<authors, books, call, created, snap>>

\* mutant: the resolver is suspended between reading the book count (when the
\* request is received) and appending, so the id comes from a stale count
Resolve_StaleCount(r) ==
    LET args == reqs[r].args[1]
        newBook == NewBook(SubSeq(books, 1, reqs[r].seen), args)
    IN  /\ reqs[r].pc = "inflight"
        /\ books' = PushBook(books, newBook)
        /\ authors' = LinkAuthor(authors, args.authorId, newBook.id)
        /\ call' = [op |-> "addBook", arg |-> Some(args), ret |-> Some(newBook)]
        /\ created' = Append(created, newBook)
        /\ snap' = NoSnap
        /\ reqs' = [reqs EXCEPT ![r] =
                      [@ EXCEPT !.pc = "done", !.ret = Some(newBook),
                                !.overlap = { q \in Reqs \ {r} :
                                                reqs[q].pc = "inflight" }]]

\* the resolver of request r runs to completion
Resolve(r) ==
    /\ reqs[r].pc = "inflight"
    /\ Mutation_addBook(reqs[r].args[1])
    /\ reqs' = [reqs EXCEPT ![r] =
                  [@ EXCEPT !.pc = "done",
                            !.ret = Some(NewBook(books, reqs[r].args[1])),
                            !.overlap = { q \in Reqs \ {r} : reqs[q].pc = "inflight" }]]

NextConc ==
    \/ \E r \in Reqs, args \in Args : Receive(r, args)
    \/ \E r \in Reqs : Resolve(r)

SpecConc == Init /\ [][NextConc]_vars

----------------------------------------------------------------------------
(* Properties *)

\* a step that is one addBook call
IsAddBookStep == Len(created') = Len(created) + 1

\* the text of the ids the numbering scheme gives the first added Books
KnownIdText(n) ==
    CASE n = 104 -> "104" [] n = 105 -> "105" [] n = 106 -> "106"
      [] n = 107 -> "107" [] OTHER -> ToString(n)

\* C1: addBook with the authorId of an existing Author, from any reachable
\* state: Query.books() grows by exactly one, the returned Book carries the
\* given title, publishedYear and authorId, it is the last element of
\* Query.books(), and Author.books of the matching Author contains it.
C1_AddBookLinked ==
    [][ \A args \in Args :
          ( /\ IsAddBookStep
            /\ call'.arg = Some(args)
            /\ FindAuthor(authors, args.authorId) # Undefined )
          => LET ret == call'.ret[1]
                 author == FindAuthor(authors', args.authorId)
             IN  /\ Len(Query_books(books')) = Len(Query_books(books)) + 1
                 /\ ret.title = args.title
                 /\ ret.publishedYear = args.publishedYear
                 /\ ret.authorId = args.authorId
                 /\ Query_books(books')[Len(books')] = ret
                 /\ author # Undefined
                 /\ Includes(Author_books(books', author[1]), ret) ]_vars

\* C1 witness: a second addBook, for Author "1", whose Book Author.books returns
C1_Witness ==
    /\ call.op = "addBook"
    /\ Len(created) = 2
    /\ call.arg[1].authorId = "1"
    /\ call.ret[1].title = "New Book"
    /\ books[Len(books)] = call.ret[1]
    /\ Includes(Author_books(books, authors[1]), call.ret[1])

\* C2: addBook with an authorId that matches no Author never fails: it appends
\* and returns a new Book with the given authorId, leaves the bookIds of every
\* Author unchanged, and Book.author of the returned Book is absent.
C2_AddBookUnlinked ==
    /\ [](\A args \in Args : ENABLED Mutation_addBook(args))
    /\ [][ \A args \in Args :
             ( /\ IsAddBookStep
               /\ call'.arg = Some(args)
               /\ FindAuthor(authors, args.authorId) = Undefined )
             => LET ret == call'.ret[1]
                IN  /\ Len(books') = Len(books) + 1
                    /\ books'[Len(books')] = ret
                    /\ ret.authorId = args.authorId
                    /\ Len(authors') = Len(authors)
                    /\ \A i \in 1..Len(authors) :
                          authors'[i].bookIds = authors[i].bookIds
                    /\ Book_author(authors', ret) = Undefined ]_vars

\* C2 witness: addBook for "does-not-exist" has returned an unlinked Book
C2_Witness ==
    /\ call.op = "addBook"
    /\ call.arg[1].authorId = "does-not-exist"
    /\ call.ret[1].authorId = "does-not-exist"
    /\ books[Len(books)] = call.ret[1]
    /\ Book_author(authors, call.ret[1]) = Undefined
    /\ \A i \in 1..Len(authors) : ~Includes(authors[i].bookIds, call.ret[1].id)

\* C3: with addBook calls run one after another, the id of each new Book is
\* the text of (number of books before the call + 101), differs from every id
\* already in the store, all Book ids are pairwise distinct, and the id of an
\* existing Book never changes.
C3_IdsNeverReused ==
    /\ [](\A i, j \in 1..Len(books) : i # j => books[i].id # books[j].id)
    /\ [][ /\ \A i \in 1..Len(books) :
                Len(books') >= i /\ books'[i].id = books[i].id
           /\ IsAddBookStep =>
                LET id == call'.ret[1].id
                IN  /\ id = ToString(Len(books) + 101)
                    /\ id = KnownIdText(Len(books) + 101)
                    /\ books'[Len(books')].id = id
                    /\ \A i \in 1..Len(books) : books[i].id # id ]_vars

\* C3 witness: two Books were added and got the ids "104" and "105"
C3_Witness ==
    /\ Len(created) = 2
    /\ created[1].id = "104"
    /\ created[2].id = "105"
    /\ Len(books) = 5
    /\ books[4].id = "104"
    /\ books[5].id = "105"

\* C4 (as amended): with two addBook requests in flight at the same time, each
\* resolver call still reads the count, appends and links in one synchronous
\* step, so the later call reads a count that includes the earlier Book and no
\* reachable state holds two Books with the same generated id.
C4_NoDuplicateUnderOverlap ==
    /\ \A i, j \in 1..Len(books) : i # j => books[i].id # books[j].id
    /\ \A r, q \in Reqs :
          ( /\ r # q
            /\ reqs[r].pc = "done"
            /\ reqs[q].pc = "done"
            /\ q \in reqs[r].overlap )
          => reqs[r].ret[1].id # reqs[q].ret[1].id

\* C4 witness: request 2 was in flight while the resolver of request 1 ran;
\* both have completed and their Books carry different ids
C4_Witness ==
    /\ reqs[1].pc = "done"
    /\ reqs[2].pc = "done"
    /\ 2 \in reqs[1].overlap
    /\ reqs[1].ret[1].id = "104"
    /\ reqs[2].ret[1].id = "105"
    /\ Len(books) = 5

\* C4 as stated: two addBook requests that were in flight at the same time read
\* the same book count, so that their Books carry the same generated id.
C4_Original ==
    \A r, q \in Reqs :
        ( /\ r # q
          /\ reqs[r].pc = "done"
          /\ reqs[q].pc = "done"
          /\ q \in reqs[r].overlap )
        => reqs[r].ret[1].id = reqs[q].ret[1].id

\* whether p is a prefix of s
IsPrefix(p, s) == Len(p) <= Len(s) /\ \A i \in 1..Len(p) : s[i] = p[i]

\* C5 (as amended): no operation creates or deletes an Author or changes an
\* Author's id or name, and the read operations and addBook with an unknown
\* authorId leave the authors collection unchanged; addBook with the id of an
\* existing Author appends the new Book's id to that Author's bookIds and
\* changes nothing else, so each seeded bookIds stays a prefix.  Query.authors()
\* returns exactly the Store's current authors.
C5_AuthorsOnlyGainBookIds ==
    /\ []( /\ Len(authors) = Len(SeedAuthors)
           /\ \A i \in 1..Len(SeedAuthors) :
                 /\ authors[i].id = SeedAuthors[i].id
                 /\ authors[i].name = SeedAuthors[i].name
                 /\ IsPrefix(SeedAuthors[i].bookIds, authors[i].bookIds)
           /\ call.op = "Query.authors" => call.ret = authors )
    /\ [][ /\ ~IsAddBookStep => authors' = authors
           /\ IsAddBookStep =>
                LET args == call'.arg[1]
                    ret == call'.ret[1]
                IN  \A i \in 1..Len(authors) :
                       authors'[i] =
                          IF authors[i].id = args.authorId
                          THEN [authors[i] EXCEPT !.bookIds = Append(@, ret.id)]
                          ELSE authors[i] ]_vars

\* C5 witness: after addBook for Author "1", Query.authors() returns authors
\* that differ from the seeded ones only by the appended id
C5_Witness ==
    /\ call.op = "Query.authors"
    /\ call.ret = authors
    /\ authors[1].bookIds = <<"101", "102", "104">>
    /\ authors[2] = SeedAuthors[2]

\* C5 as stated: the authors collection, bookIds included, always equals the
\* seeded one, and Query.authors() returns the seeded Authors.
C5_Original ==
    /\ authors = SeedAuthors
    /\ call.op = "Query.authors" => call.ret = SeedAuthors

\* the position of a Book in the store
PosInStore(b) == CHOOSE i \in 1..Len(books) : books[i] = b

\* r is exactly the Books of the store whose id is in a.bookIds, each once,
\* in store order
IsBooksOf(r, a) ==
    /\ \A k \in 1..Len(r) :
          /\ r[k] \in Range(books)
          /\ r[k].id \in Range(a.bookIds)
    /\ \A b \in Range(books) : b.id \in Range(a.bookIds) => b \in Range(r)
    /\ \A k, l \in 1..Len(r) : k # l => r[k] # r[l]
    /\ \A k, l \in 1..Len(r) : k < l => PosInStore(r[k]) < PosInStore(r[l])
    /\ ( \/ a.bookIds = << >>
         \/ \A b \in Range(books) : b.id \notin Range(a.bookIds) ) => r = << >>

\* C6: for every Author a (and every probe parent), in every reachable state,
\* Author.books(a) is exactly the Books whose id appears in a.bookIds: no
\* other Book, no Book twice, in the store's book order and not in the order
\* of a.bookIds, ids that match no Book ignored, empty when a.bookIds is empty
\* or nothing matches.
C6_AuthorBooksExact ==
    /\ \A a \in AuthorParents : IsBooksOf(Author_books(books, a), a)
    /\ call.op = "Author.books" => IsBooksOf(call.ret, call.arg[1])

\* C6 witness: Author.books of a parent whose bookIds are <<"104", "101">>
\* returns the seeded Book before the added one: store order
C6_Witness ==
    /\ call.op = "Author.books"
    /\ call.arg[1].bookIds = <<"104", "101">>
    /\ Len(books) >= 4
    /\ call.ret = << books[1], books[4] >>

\* r is the Author whose id is b.authorId, or absent when there is none
IsAuthorOf(r, b) ==
    IF \E a \in Range(authors) : a.id = b.authorId
    THEN /\ Len(r) = 1
         /\ r[1] \in Range(authors)
         /\ r[1].id = b.authorId
    ELSE r = Undefined

\* C7: for every Book b of the store (added Books included, and every probe
\* parent), in every reachable state, Book.author(b) is the Author whose id
\* equals b.authorId, and is absent when no Author has that id.
C7_BookAuthorExact ==
    /\ \A b \in BookParents : IsAuthorOf(Book_author(authors, b), b)
    /\ call.op = "Book.author" => IsAuthorOf(call.ret, call.arg[1])

\* C7 witness: Book.author of an added Book whose authorId matches no Author
\* is absent, while another added Book resolves to Author "2"
C7_Witness ==
    /\ call.op = "Book.author"
    /\ Len(created) = 2
    /\ call.arg[1] = created[2]
    /\ created[2].authorId = "does-not-exist"
    /\ call.ret = Undefined
    /\ Book_author(authors, created[1]) = Some(authors[2])

\* C8: the books collection is append-only: Query.books() is the seeded Books
\* followed by every Book addBook created, in call order, and no Book is
\* removed, reordered or changed after it was appended.
C8_AppendOnly ==
    /\ []( /\ Query_books(books) = SeedBooks \o created
           /\ call.op = "Query.books" => call.ret = SeedBooks \o created )
    /\ [][ IsPrefix(books, books') ]_vars

\* C8 witness: Query.books() after two addBook calls
C8_Witness ==
    /\ call.op = "Query.books"
    /\ Len(created) = 2
    /\ created[1].title = "X"
    /\ created[2].title = "New Book"
    /\ call.ret = SeedBooks \o created

\* C9: the read operations leave the store unchanged, so two calls of
\* Query.authors() or of Query.books() with no addBook in between return
\* identical sequences.
C9_ReadsPure ==
    /\ []( /\ Len(snap.books) = 2 => snap.books[1] = snap.books[2]
           /\ Len(snap.authors) = 2 => snap.authors[1] = snap.authors[2] )
    /\ [][ ~IsAddBookStep => (authors' = authors /\ books' = books) ]_vars

\* C9 witness: both root queries were called twice since the last addBook
C9_Witness ==
    /\ Len(created) = 1
    /\ Len(snap.books) = 2
    /\ Len(snap.authors) = 2
    /\ snap.books[2] = books
    /\ snap.authors[2] = authors

\* C10: link consistency in every state reached by addBook calls run one after
\* another: no Author's bookIds holds a duplicate, every id in an Author's
\* bookIds is the id of an existing Book whose authorId is that Author's id,
\* every Book whose authorId matches an existing Author is in that Author's
\* bookIds and in no other's, and Author.books(a) is the Books b with
\* Book.author(b) = a.
C10_LinkConsistency ==
    /\ \A i \in 1..Len(authors) :
          LET a == authors[i]
          IN  /\ \A k, l \in 1..Len(a.bookIds) :
                    k # l => a.bookIds[k] # a.bookIds[l]
              /\ \A k \in 1..Len(a.bookIds) :
                    \E b \in Range(books) :
                        b.id = a.bookIds[k] /\ b.authorId = a.id
              /\ Author_books(books, a) =
                    SelectSeq(books, LAMBDA b : Book_author(authors, b) = Some(a))
    /\ \A b \in Range(books) :
          \A i \in 1..Len(authors) :
              (authors[i].id = b.authorId) <=> Includes(authors[i].bookIds, b.id)

\* C10 witness: one Book added for Author "2" and one for an unknown Author
C10_Witness ==
    /\ Len(created) = 2
    /\ authors[2].bookIds = <<"103", "104">>
    /\ books[5].authorId = "does-not-exist"
    /\ Author_books(books, authors[2]) = << books[3], books[4] >>
    /\ Book_author(authors, books[4]) = Some(authors[2])

====
